---- MODULE Spec2Model ----
(***************************************************************************)
(* Model of the solana-guard-escrow program                                *)
(* (programs/solana-guard-escrow/src/lib.rs, state.rs, errors.rs).         *)
(*                                                                         *)
(* One escrow account (a PDA) exists per (buyer, seller) pair.  Every      *)
(* instruction is one atomic step: the account constraints of its context  *)
(* struct are evaluated first, then the handler body, then the exit        *)
(* routine (close).  A rejected instruction changes nothing on the ledger; *)
(* the variable last records the call that was just made and its outcome.  *)
(***************************************************************************)
EXTENDS Integers, FiniteSets, Sequences, TLC

\* ---------------------------------------------------------------- bounds
Keys == {"k1", "k2", "k3"}      \* the public keys that take part
Buyers == {"k1"}                \* keys that sign initialize_escrow as buyer
Sellers == {"k2"}               \* keys named as seller in initialize_escrow
MaxAmount == 1                  \* largest amount argument of initialize_escrow
MaxTimeout == 1                 \* largest timeout_period argument
MaxTime == 1                    \* the clock runs from 0 to MaxTime
InitLamports == 2               \* lamports every key starts with
RentExempt == 1                 \* Rent::minimum_balance of an escrow account
MaxTopUps == 1                  \* plain ledger transfers into an escrow account
MaxBal == 4                     \* SpecCalc: largest escrow balance drawn
MaxRent == 3                    \* SpecCalc: largest minimum reserve drawn

VARIABLES
  escrows,          \* pair -> Escrow account data, for the pairs whose PDA exists
  escrow_lamports,  \* pair -> lamports held by the PDA (0 when it does not exist)
  lamports,         \* key -> lamports of that key's own account
  now,              \* Clock::get()?.unix_timestamp
  rent,             \* Rent::get()?.minimum_balance(data_len)
  ntopups,          \* ledger top-ups so far (exploration bound)
  last              \* the step just taken: instruction, accounts, arguments, outcome

vars == <<escrows, escrow_lamports, lamports, now, rent, ntopups, last>>

Pairs == Buyers \X Sellers
NoArbiter == "None"
Amounts == 0 .. MaxAmount
Timeouts == -1 .. MaxTimeout

\* EscrowState (state.rs)
EscrowState == {"Created", "Funded", "Released", "Refunded", "Cancelled"}

\* The bump of the PDA derived from the seeds; opaque to the program.
Bump(buyer, seller) == 255

\* ------------------------------------------------------------ pure helpers
\* Mutant: the reserve is not kept back.
M14_SaturatingSub(a, b) == a

\* Mutant: plain subtraction, without saturation.
M10_SaturatingSub(a, b) == a - b

\* u64::saturating_sub
SaturatingSub(a, b) == IF a >= b THEN a - b ELSE 0

\* Mutant: the stored reserve is ignored and the whole balance is moved.
M11_TransferAmount(escrow_balance, r) == escrow_balance

\* transfer_amount = escrow_balance.saturating_sub(rent)
TransferAmount(escrow_balance, r) == SaturatingSub(escrow_balance, r)

\* Mutant: the arbiter argument is stored as given, without normalization.
M9_NormalizeArbiter(arbiter, buyer) == arbiter

\* escrow.arbiter = if arbiter.key() == buyer.key() { None } else { Some(..) }
NormalizeArbiter(arbiter, buyer) == IF arbiter = buyer THEN NoArbiter ELSE arbiter

\* escrow.arbiter.map_or(false, |a| caller == a)
ArbiterIs(e, caller) == e.arbiter # NoArbiter /\ caller = e.arbiter

\* Mutant: the seller must wait until after the timeout has passed.
M15_ReleaseAuthorized(e, caller, t) ==
  \/ caller = e.buyer
  \/ ArbiterIs(e, caller)
  \/ (caller = e.seller /\ t - e.created_at > e.timeout_period)

\* Mutant: the seller's clause lacks the timeout condition.
M3_ReleaseAuthorized(e, caller, t) ==
  \/ caller = e.buyer
  \/ ArbiterIs(e, caller)
  \/ caller = e.seller

\* is_authorized of release_to_seller
ReleaseAuthorized(e, caller, t) ==
  LET time_elapsed == t - e.created_at IN
     \/ caller = e.buyer
     \/ ArbiterIs(e, caller)
     \/ (caller = e.seller /\ time_elapsed >= e.timeout_period)

\* Mutant: the buyer's clause is missing.
M4_RefundAuthorized(e, caller) ==
  \/ caller = e.seller
  \/ ArbiterIs(e, caller)

\* is_authorized of refund_to_buyer
RefundAuthorized(e, caller) ==
  \/ caller = e.seller
  \/ ArbiterIs(e, caller)
  \/ caller = e.buyer

\* Mutant: the arbiter may cancel too.
M6_CancelAuthorized(e, caller) ==
  caller = e.buyer \/ caller = e.seller \/ ArbiterIs(e, caller)

\* is_authorized of cancel_escrow
CancelAuthorized(e, caller) == caller = e.buyer \/ caller = e.seller

Exists(p) == p \in DOMAIN escrows

\* The record of one step: the instruction, the escrow account it addressed
\* (buyer, seller), the signer, the amount and timeout arguments, the outcome
\* and the lamports moved.  The unchecked accounts of the call (dest: the
\* seller or buyer account presented; arbiter) are recorded when the call
\* succeeded; a rejected call never used them.
Call(op, p, caller, dest, arbiter, amount, timeout, err, moved) ==
  [op |-> op, buyer |-> p[1], seller |-> p[2], caller |-> caller,
   dest |-> IF err = "Ok" THEN dest ELSE "-",
   arbiter |-> IF err = "Ok" THEN arbiter ELSE "-",
   amount |-> amount, timeout |-> timeout,
   err |-> err, moved |-> moved]

\* ------------------------------------------------------------------- Init
Init ==
  /\ escrows = << >>
  /\ escrow_lamports = [p \in Pairs |-> 0]
  /\ lamports = [k \in Keys |-> InitLamports]
  /\ now = 0
  /\ rent = RentExempt
  /\ ntopups = 0
  /\ last = Call("none", <<"-", "-">>, "-", "-", "-", 0, 0, "Ok", 0)

\* -------------------------------------------------------------- instructions
\* Mutant: init_if_needed, an existing account is written again.
M20_InitializeEscrowErr(buyer, seller, arbiter, amount, timeout_period) ==
  IF lamports[buyer] < rent THEN "InsufficientFunds"
  ELSE IF ~(amount > 0) THEN "InvalidAmount"
  ELSE IF ~(timeout_period > 0) THEN "InvalidTimeout"
  ELSE "Ok"

\* Mutant: a timeout of zero passes the validation.
M8_InitializeEscrowErr(buyer, seller, arbiter, amount, timeout_period) ==
  IF <<buyer, seller>> \in DOMAIN escrows THEN "AccountAlreadyInUse"
  ELSE IF lamports[buyer] < rent THEN "InsufficientFunds"
  ELSE IF ~(amount > 0) THEN "InvalidAmount"
  ELSE IF ~(timeout_period >= 0) THEN "InvalidTimeout"
  ELSE "Ok"

\* initialize_escrow with the InitializeEscrow accounts: buyer signs and pays
\* for the new PDA (init, payer = buyer), seller and arbiter are unchecked.
InitializeEscrowErr(buyer, seller, arbiter, amount, timeout_period) ==
  IF Exists(<<buyer, seller>>) THEN "AccountAlreadyInUse"
  ELSE IF lamports[buyer] < rent THEN "InsufficientFunds"
  ELSE IF ~(amount > 0) THEN "InvalidAmount"
  ELSE IF ~(timeout_period > 0) THEN "InvalidTimeout"
  ELSE "Ok"

InitializeEscrow(buyer, seller, arbiter, amount, timeout_period) ==
  LET p == <<buyer, seller>>
      err == InitializeEscrowErr(buyer, seller, arbiter, amount, timeout_period)
      e == [buyer |-> buyer, seller |-> seller,
            arbiter |-> NormalizeArbiter(arbiter, buyer),
            amount |-> amount, created_at |-> now,
            timeout_period |-> timeout_period,
            state |-> "Created", bump |-> Bump(buyer, seller)]
  IN /\ last' = Call("create", p, buyer, "-", arbiter, amount, timeout_period, err, 0)
     /\ IF err = "Ok"
        THEN /\ escrows' = [q \in DOMAIN escrows \cup {p} |->
                              IF q = p THEN e ELSE escrows[q]]
             /\ lamports' = [lamports EXCEPT ![buyer] = @ - rent]
             /\ escrow_lamports' = [escrow_lamports EXCEPT ![p] = @ + rent]
        ELSE UNCHANGED <<escrows, lamports, escrow_lamports>>
     /\ UNCHANGED <<now, rent, ntopups>>

\* Mutant: the state guard of fund_escrow is missing.
M7_FundEscrowErr(p, buyer) ==
  IF p \notin DOMAIN escrows THEN "AccountNotInitialized"
  ELSE IF escrows[p].buyer # buyer THEN "ConstraintHasOne"
  ELSE IF lamports[buyer] < escrows[p].amount THEN "InsufficientFunds"
  ELSE "Ok"

\* fund_escrow with the FundEscrow accounts: buyer signs, has_one = buyer.
FundEscrowErr(p, buyer) ==
  IF ~Exists(p) THEN "AccountNotInitialized"
  ELSE IF escrows[p].buyer # buyer THEN "ConstraintHasOne"
  ELSE IF escrows[p].state # "Created" THEN "InvalidState"
  ELSE IF lamports[buyer] < escrows[p].amount THEN "InsufficientFunds"
  ELSE "Ok"

\* Mutant: funding restarts the timeout.
M19_FundEscrow(p, buyer) ==
  LET err == FundEscrowErr(p, buyer) IN
     /\ last' = Call("fund", p, buyer, "-", "-", 0, 0, err,
                     IF err = "Ok" THEN escrows[p].amount ELSE 0)
     /\ IF err = "Ok"
        THEN /\ lamports' = [lamports EXCEPT ![buyer] = @ - escrows[p].amount]
             /\ escrow_lamports' = [escrow_lamports EXCEPT ![p] = @ + escrows[p].amount]
             /\ escrows' = [escrows EXCEPT ![p].state = "Funded",
                                            ![p].created_at = now]
        ELSE UNCHANGED <<escrows, lamports, escrow_lamports>>
     /\ UNCHANGED <<now, rent, ntopups>>

\* Mutant: the state is written before the transfer and survives its failure.
M13_FundEscrow(p, buyer) ==
  LET err == FundEscrowErr(p, buyer) IN
     /\ last' = Call("fund", p, buyer, "-", "-", 0, 0, err,
                     IF err = "Ok" THEN escrows[p].amount ELSE 0)
     /\ IF err = "Ok"
        THEN /\ lamports' = [lamports EXCEPT ![buyer] = @ - escrows[p].amount]
             /\ escrow_lamports' = [escrow_lamports EXCEPT ![p] = @ + escrows[p].amount]
             /\ escrows' = [escrows EXCEPT ![p].state = "Funded"]
        ELSE IF err = "InsufficientFunds"
        THEN /\ escrows' = [escrows EXCEPT ![p].state = "Funded"]
             /\ UNCHANGED <<lamports, escrow_lamports>>
        ELSE UNCHANGED <<escrows, lamports, escrow_lamports>>
     /\ UNCHANGED <<now, rent, ntopups>>

FundEscrow(p, buyer) ==
  LET err == FundEscrowErr(p, buyer) IN
     /\ last' = Call("fund", p, buyer, "-", "-", 0, 0, err,
                     IF err = "Ok" THEN escrows[p].amount ELSE 0)
     /\ IF err = "Ok"
        THEN /\ lamports' = [lamports EXCEPT ![buyer] = @ - escrows[p].amount]
             /\ escrow_lamports' = [escrow_lamports EXCEPT ![p] = @ + escrows[p].amount]
             /\ escrows' = [escrows EXCEPT ![p].state = "Funded"]
        ELSE UNCHANGED <<escrows, lamports, escrow_lamports>>
     /\ UNCHANGED <<now, rent, ntopups>>

\* Mutant: the state guard of release_to_seller is missing.
M12_ReleaseToSellerErr(p, caller) ==
  IF p \notin DOMAIN escrows THEN "AccountNotInitialized"
  ELSE IF ~ReleaseAuthorized(escrows[p], caller, now) THEN "UnauthorizedOperation"
  ELSE "Ok"

\* release_to_seller with the ReleaseToSeller accounts: caller signs; the
\* seller account is whatever writable account the caller presents.
ReleaseToSellerErr(p, caller) ==
  IF ~Exists(p) THEN "AccountNotInitialized"
  ELSE IF escrows[p].state # "Funded" THEN "EscrowNotFunded"
  ELSE IF ~ReleaseAuthorized(escrows[p], caller, now) THEN "UnauthorizedOperation"
  ELSE "Ok"

\* Mutant: the payout clears the recorded amount.
M16_ReleaseToSeller(p, caller, seller) ==
  LET err == ReleaseToSellerErr(p, caller)
      transfer_amount == TransferAmount(escrow_lamports[p], rent)
  IN /\ last' = Call("release", p, caller, seller, "-", 0, 0, err,
                     IF err = "Ok" THEN transfer_amount ELSE 0)
     /\ IF err = "Ok"
        THEN /\ escrow_lamports' = [escrow_lamports EXCEPT ![p] = @ - transfer_amount]
             /\ lamports' = [lamports EXCEPT ![seller] = @ + transfer_amount]
             /\ escrows' = [escrows EXCEPT ![p].state = "Released", ![p].amount = 0]
        ELSE UNCHANGED <<escrows, lamports, escrow_lamports>>
     /\ UNCHANGED <<now, rent, ntopups>>

ReleaseToSeller(p, caller, seller) ==
  LET err == ReleaseToSellerErr(p, caller)
      transfer_amount == TransferAmount(escrow_lamports[p], rent)
  IN /\ last' = Call("release", p, caller, seller, "-", 0, 0, err,
                     IF err = "Ok" THEN transfer_amount ELSE 0)
     /\ IF err = "Ok"
        THEN /\ escrow_lamports' = [escrow_lamports EXCEPT ![p] = @ - transfer_amount]
             /\ lamports' = [lamports EXCEPT ![seller] = @ + transfer_amount]
             /\ escrows' = [escrows EXCEPT ![p].state = "Released"]
        ELSE UNCHANGED <<escrows, lamports, escrow_lamports>>
     /\ UNCHANGED <<now, rent, ntopups>>

\* Mutant: a Released record may still be refunded.
M18_RefundToBuyerErr(p, caller) ==
  IF p \notin DOMAIN escrows THEN "AccountNotInitialized"
  ELSE IF escrows[p].state \notin {"Funded", "Released"} THEN "EscrowNotFunded"
  ELSE IF ~RefundAuthorized(escrows[p], caller) THEN "UnauthorizedOperation"
  ELSE "Ok"

\* refund_to_buyer with the RefundToBuyer accounts: caller signs; the buyer
\* account is whatever writable account the caller presents.
RefundToBuyerErr(p, caller) ==
  IF ~Exists(p) THEN "AccountNotInitialized"
  ELSE IF escrows[p].state # "Funded" THEN "EscrowNotFunded"
  ELSE IF ~RefundAuthorized(escrows[p], caller) THEN "UnauthorizedOperation"
  ELSE "Ok"

RefundToBuyer(p, caller, buyer) ==
  LET err == RefundToBuyerErr(p, caller)
      transfer_amount == TransferAmount(escrow_lamports[p], rent)
  IN /\ last' = Call("refund", p, caller, buyer, "-", 0, 0, err,
                     IF err = "Ok" THEN transfer_amount ELSE 0)
     /\ IF err = "Ok"
        THEN /\ escrow_lamports' = [escrow_lamports EXCEPT ![p] = @ - transfer_amount]
             /\ lamports' = [lamports EXCEPT ![buyer] = @ + transfer_amount]
             /\ escrows' = [escrows EXCEPT ![p].state = "Refunded"]
        ELSE UNCHANGED <<escrows, lamports, escrow_lamports>>
     /\ UNCHANGED <<now, rent, ntopups>>

\* Mutant: the state guard rejects a Funded record only.
M5_CancelEscrowErr(p, caller) ==
  IF p \notin DOMAIN escrows THEN "AccountNotInitialized"
  ELSE IF escrows[p].state = "Funded" THEN "EscrowAlreadyFunded"
  ELSE IF ~(caller = escrows[p].buyer \/ caller = escrows[p].seller)
       THEN "UnauthorizedOperation"
  ELSE "Ok"

\* cancel_escrow with the CancelEscrow accounts: caller signs; close = buyer
\* sends every lamport of the PDA to the presented buyer account and removes
\* the account.
CancelEscrowErr(p, caller) ==
  IF ~Exists(p) THEN "AccountNotInitialized"
  ELSE IF escrows[p].state # "Created" THEN "EscrowAlreadyFunded"
  ELSE IF ~CancelAuthorized(escrows[p], caller) THEN "UnauthorizedOperation"
  ELSE "Ok"

\* Mutant: the account is removed without its lamports being returned.
M17_CancelEscrow(p, caller, buyer) ==
  LET err == CancelEscrowErr(p, caller) IN
     /\ last' = Call("cancel", p, caller, buyer, "-", 0, 0, err,
                     IF err = "Ok" THEN escrow_lamports[p] ELSE 0)
     /\ IF err = "Ok"
        THEN /\ escrow_lamports' = [escrow_lamports EXCEPT ![p] = 0]
             /\ escrows' = [q \in DOMAIN escrows \ {p} |-> escrows[q]]
             /\ UNCHANGED lamports
        ELSE UNCHANGED <<escrows, lamports, escrow_lamports>>
     /\ UNCHANGED <<now, rent, ntopups>>

CancelEscrow(p, caller, buyer) ==
  LET err == CancelEscrowErr(p, caller) IN
     /\ last' = Call("cancel", p, caller, buyer, "-", 0, 0, err,
                     IF err = "Ok" THEN escrow_lamports[p] ELSE 0)
     /\ IF err = "Ok"
        THEN /\ lamports' = [lamports EXCEPT ![buyer] = @ + escrow_lamports[p]]
             /\ escrow_lamports' = [escrow_lamports EXCEPT ![p] = 0]
             /\ escrows' = [q \in DOMAIN escrows \ {p} |-> escrows[q]]
        ELSE UNCHANGED <<escrows, lamports, escrow_lamports>>
     /\ UNCHANGED <<now, rent, ntopups>>

\* ------------------------------------------------------------- environment
\* The clock is a non-decreasing integer.
Tick ==
  /\ now < MaxTime
  /\ now' = now + 1
  /\ last' = Call("tick", <<"-", "-">>, "-", "-", "-", 0, 0, "Ok", 0)
  /\ UNCHANGED <<escrows, escrow_lamports, lamports, rent, ntopups>>

\* Anyone may send lamports to an existing escrow account with a plain
\* system transfer; the program is not involved.
TopUp(p, from) ==
  /\ Exists(p)
  /\ ntopups < MaxTopUps
  /\ lamports[from] >= 1
  /\ lamports' = [lamports EXCEPT ![from] = @ - 1]
  /\ escrow_lamports' = [escrow_lamports EXCEPT ![p] = @ + 1]
  /\ ntopups' = ntopups + 1
  /\ last' = Call("topup", p, from, "-", "-", 0, 0, "Ok", 1)
  /\ UNCHANGED <<escrows, now, rent>>

Next ==
  \/ \E b \in Buyers, s \in Sellers, a \in Keys, amt \in Amounts, t \in Timeouts :
        InitializeEscrow(b, s, a, amt, t)
  \/ \E p \in Pairs, b \in Keys : FundEscrow(p, b)
  \/ \E p \in Pairs, c \in Keys, d \in Keys : ReleaseToSeller(p, c, d)
  \/ \E p \in Pairs, c \in Keys, d \in Keys : RefundToBuyer(p, c, d)
  \/ \E p \in Pairs, c \in Keys, d \in Keys : CancelEscrow(p, c, d)
  \/ Tick
  \/ \E p \in Pairs, k \in Keys : TopUp(p, k)

Spec == Init /\ [][Next]_vars

\* ------------------------------------------------------------ scheduling
\* The seller's own release, when it is permitted.
SellerReleases ==
  \E p \in Pairs :
     /\ Exists(p)
     /\ ReleaseToSellerErr(p, escrows[p].seller) = "Ok"
     /\ ReleaseToSeller(p, escrows[p].seller, escrows[p].seller)

\* The clock keeps advancing (up to MaxTime) and a seller whose release stays
\* permitted eventually makes it.
SpecLive == Init /\ [][Next]_vars /\ WF_vars(Tick) /\ WF_vars(SellerReleases)

\* ------------------------------------------------- pure-function harness
\* The movable-balance computation applied to every escrow balance and every
\* minimum reserve in a bounded range: the ledger starts with one Funded
\* record whose account holds an arbitrary balance, and release and refund
\* are applied to it.
InitCalc ==
  /\ \E a \in (Keys \ {"k1"}) \cup {NoArbiter}, amt \in 1 .. MaxAmount :
        escrows = [p \in {<<"k1", "k2">>} |->
                     [buyer |-> "k1", seller |-> "k2", arbiter |-> a,
                      amount |-> amt, created_at |-> 0, timeout_period |-> 1,
                      state |-> "Funded", bump |-> Bump("k1", "k2")]]
  /\ escrow_lamports \in [Pairs -> 0 .. MaxBal]
  /\ lamports = [k \in Keys |-> InitLamports]
  /\ now \in 0 .. MaxTime
  /\ rent \in 0 .. MaxRent
  /\ ntopups = 0
  /\ last = Call("none", <<"-", "-">>, "-", "-", "-", 0, 0, "Ok", 0)

NextCalc ==
  \/ \E p \in Pairs, c \in Keys, d \in Keys : ReleaseToSeller(p, c, d)
  \/ \E p \in Pairs, c \in Keys, d \in Keys : RefundToBuyer(p, c, d)

SpecCalc == InitCalc /\ [][NextCalc]_vars

\* ------------------------------------------------------------- properties
\* The escrow account the step just taken was addressed to.
LastPair == <<last.buyer, last.seller>>

Max(a, b) == IF a >= b THEN a ELSE b
Min(a, b) == IF a <= b THEN a ELSE b

LedgerUnchanged == UNCHANGED <<escrows, lamports, escrow_lamports>>

\* C1: value leaving the escrow account goes to the party named in the
\* record: after a successful release only the account of the record's seller
\* has gained lamports, after a successful refund or cancel only the account
\* of the record's buyer, whatever destination account the caller presented.
C1_ValueGoesToNamedParty ==
  [][ (last'.err = "Ok" /\ last'.op \in {"release", "refund", "cancel"}) =>
        LET e == escrows[LastPair']
            named == IF last'.op = "release" THEN e.seller ELSE e.buyer
        IN \A k \in Keys : lamports'[k] > lamports[k] => k = named ]_vars

\* C2: on a Funded record a release signed by the seller is rejected with
\* UnauthorizedOperation, leaving state and balances unchanged, while
\* now - created_at < timeout_period, and succeeds once
\* now - created_at >= timeout_period; this for every arbiter the record was
\* created with.
C2_SellerReleaseOnlyAfterTimeout ==
  [][ (/\ last'.op = "release"
       /\ Exists(LastPair')
       /\ escrows[LastPair'].state = "Funded"
       /\ last'.caller = escrows[LastPair'].seller) =>
        LET e == escrows[LastPair'] IN
          IF now - e.created_at < e.timeout_period
          THEN last'.err = "UnauthorizedOperation" /\ LedgerUnchanged
          ELSE last'.err = "Ok" /\ escrows'[LastPair'].state = "Released" ]_vars

\* C3: on a Funded record release succeeds, making the state Released,
\* exactly when the caller is the buyer, or the stored arbiter, or the seller
\* with now - created_at >= timeout_period; every other call is rejected
\* with UnauthorizedOperation and the record stays Funded.
C3_ReleaseAuthorization ==
  [][ (/\ last'.op = "release"
       /\ Exists(LastPair')
       /\ escrows[LastPair'].state = "Funded") =>
        LET e == escrows[LastPair']
            c == last'.caller
            permitted == \/ c = e.buyer
                         \/ (e.arbiter # NoArbiter /\ c = e.arbiter)
                         \/ (c = e.seller /\ now - e.created_at >= e.timeout_period)
        IN IF permitted
           THEN last'.err = "Ok" /\ escrows'[LastPair'].state = "Released"
           ELSE /\ last'.err = "UnauthorizedOperation"
                /\ escrows'[LastPair'].state = "Funded" ]_vars

\* C3 witness: the seller, who is not the arbiter, has released after the
\* timeout.
C3_Witness ==
  /\ last.op = "release" /\ last.err = "Ok"
  /\ Exists(LastPair)
  /\ escrows[LastPair].state = "Released"
  /\ last.caller = escrows[LastPair].seller
  /\ escrows[LastPair].arbiter # last.caller
  /\ now - escrows[LastPair].created_at >= escrows[LastPair].timeout_period

\* C4: on a Funded record refund succeeds, making the state Refunded, at any
\* time when the caller is the seller, the stored arbiter or the buyer, and
\* is rejected with UnauthorizedOperation for any other caller; on a Created
\* record refund is rejected with EscrowNotFunded for every caller.
C4_RefundAuthorization ==
  [][ (last'.op = "refund" /\ Exists(LastPair')) =>
        LET e == escrows[LastPair']
            c == last'.caller
            permitted == \/ c = e.seller
                         \/ (e.arbiter # NoArbiter /\ c = e.arbiter)
                         \/ c = e.buyer
        IN /\ e.state = "Funded" =>
                IF permitted
                THEN last'.err = "Ok" /\ escrows'[LastPair'].state = "Refunded"
                ELSE /\ last'.err = "UnauthorizedOperation"
                     /\ escrows'[LastPair'].state = "Funded"
           /\ e.state = "Created" =>
                last'.err = "EscrowNotFunded" /\ LedgerUnchanged ]_vars

\* C4 witness: an outsider's refund on a Funded record has been rejected.
C4_Witness ==
  /\ last.op = "refund" /\ last.err = "UnauthorizedOperation"
  /\ Exists(LastPair)
  /\ escrows[LastPair].state = "Funded"
  /\ last.caller \notin {escrows[LastPair].buyer, escrows[LastPair].seller}

Instructions == {"create", "fund", "release", "refund", "cancel"}
StateGuardErrors == {"InvalidState", "EscrowNotFunded", "EscrowAlreadyFunded"}

\* C5 as stated: once a record is Released, Refunded or Cancelled, every later
\* create, fund, release, refund or cancel on it fails with one of the
\* state-guard errors InvalidState, EscrowNotFunded, EscrowAlreadyFunded.
C5_TerminalityAsStated ==
  [][ (/\ last'.op \in Instructions
       /\ \/ /\ Exists(LastPair')
             /\ escrows[LastPair'].state \in {"Released", "Refunded", "Cancelled"}
          \/ /\ last.op = "cancel" /\ last.err = "Ok"
             /\ LastPair' = LastPair) =>
        last'.err \in StateGuardErrors /\ LedgerUnchanged ]_vars

\* C5 amended: once a record is Released or Refunded no later instruction on
\* it succeeds or changes the ledger: fund by the buyer fails with
\* InvalidState (by another key: with the has_one constraint), release and
\* refund with EscrowNotFunded, cancel with EscrowAlreadyFunded, and create
\* for its pair with the ledger's account-already-in-use error.  A cancelled
\* record no longer exists: fund, release, refund and cancel addressed to a
\* pair without a record fail with AccountNotInitialized.
C5_Terminality ==
  [][ last'.op \in Instructions =>
        LET p == LastPair'
            op == last'.op
        IN /\ (Exists(p) /\ escrows[p].state \in {"Released", "Refunded"}) =>
                /\ LedgerUnchanged
                /\ op = "create" => last'.err = "AccountAlreadyInUse"
                /\ op = "fund" =>
                     last'.err = IF last'.caller = escrows[p].buyer
                                 THEN "InvalidState" ELSE "ConstraintHasOne"
                /\ op \in {"release", "refund"} => last'.err = "EscrowNotFunded"
                /\ op = "cancel" => last'.err = "EscrowAlreadyFunded"
           /\ (~Exists(p) /\ op # "create") =>
                last'.err = "AccountNotInitialized" /\ LedgerUnchanged ]_vars

\* C5 witness: a create for the pair of a Refunded record has been rejected.
C5_Witness ==
  /\ last.op = "create" /\ last.err = "AccountAlreadyInUse"
  /\ Exists(LastPair)
  /\ escrows[LastPair].state = "Refunded"

\* C6: cancel succeeds only on a Created record and only for the buyer or
\* the seller; on a record in any other state it is rejected with
\* EscrowAlreadyFunded, on a Created record with another caller with
\* UnauthorizedOperation; after a successful cancel the record is gone.
C6_Cancel ==
  [][ last'.op = "cancel" =>
        LET p == LastPair'
            c == last'.caller
        IN /\ last'.err = "Ok" =>
                /\ Exists(p)
                /\ escrows[p].state = "Created"
                /\ c \in {escrows[p].buyer, escrows[p].seller}
                /\ p \notin DOMAIN escrows'
           /\ (Exists(p) /\ escrows[p].state # "Created") =>
                last'.err = "EscrowAlreadyFunded" /\ LedgerUnchanged
           /\ (Exists(p) /\ escrows[p].state = "Created") =>
                IF c \in {escrows[p].buyer, escrows[p].seller}
                THEN last'.err = "Ok"
                ELSE last'.err = "UnauthorizedOperation" /\ LedgerUnchanged ]_vars

\* C6 witness: the seller has cancelled a Created record, which is gone.
C6_Witness ==
  /\ last.op = "cancel" /\ last.err = "Ok"
  /\ last.caller = last.seller
  /\ ~Exists(LastPair)

C8_CreateAsStated ==
  [][ (/\ last'.op = "create"
       /\ ~Exists(LastPair')
       /\ lamports[last'.buyer] >= rent) =>
        LET c == last' IN
          /\ (c.amount > 0 /\ c.timeout > 0) =>
                /\ c.err = "Ok"
                /\ LastPair' \in DOMAIN escrows'
                /\ escrows'[LastPair'].state = "Created"
                /\ escrows'[LastPair'].buyer = c.buyer
                /\ escrows'[LastPair'].seller = c.seller
                /\ escrows'[LastPair'].amount = c.amount
                /\ escrows'[LastPair'].timeout_period = c.timeout
                /\ escrows'[LastPair'].created_at = now
          /\ c.amount = 0 =>
                c.err = "InvalidAmount" /\ LastPair' \notin DOMAIN escrows'
          /\ c.timeout <= 0 =>
                c.err = "InvalidTimeout" /\ LastPair' \notin DOMAIN escrows' ]_vars

\* C8 amended: as stated, except that the amount is validated first: create
\* with amount = 0 fails with InvalidAmount whatever the timeout, and create
\* with amount > 0 and timeout_period <= 0 fails with InvalidTimeout.
C8_Create ==
  [][ (/\ last'.op = "create"
       /\ ~Exists(LastPair')
       /\ lamports[last'.buyer] >= rent) =>
        LET c == last' IN
          /\ (c.amount > 0 /\ c.timeout > 0) =>
                /\ c.err = "Ok"
                /\ LastPair' \in DOMAIN escrows'
                /\ escrows'[LastPair'].state = "Created"
                /\ escrows'[LastPair'].buyer = c.buyer
                /\ escrows'[LastPair'].seller = c.seller
                /\ escrows'[LastPair'].amount = c.amount
                /\ escrows'[LastPair'].timeout_period = c.timeout
                /\ escrows'[LastPair'].created_at = now
          /\ c.amount = 0 =>
                c.err = "InvalidAmount" /\ LastPair' \notin DOMAIN escrows'
          /\ (c.amount > 0 /\ c.timeout <= 0) =>
                c.err = "InvalidTimeout" /\ LastPair' \notin DOMAIN escrows' ]_vars

\* C8 witness: a create with a valid amount and a non-positive timeout has
\* been rejected with InvalidTimeout and left no record.
C8_Witness ==
  /\ last.op = "create" /\ last.err = "InvalidTimeout"
  /\ last.amount > 0 /\ last.timeout <= 0
  /\ ~Exists(LastPair)

\* C9: a create whose arbiter argument is the buyer's key stores no arbiter,
\* any other arbiter argument is stored as given; on a Funded record without
\* arbiter every caller other than the buyer and the seller is rejected with
\* UnauthorizedOperation by release and by refund.
C9_ArbiterNormalization ==
  [][ /\ (last'.op = "create" /\ last'.err = "Ok") =>
            escrows'[LastPair'].arbiter =
               IF last'.arbiter = last'.buyer THEN NoArbiter ELSE last'.arbiter
      /\ (/\ last'.op \in {"release", "refund"}
          /\ Exists(LastPair')
          /\ escrows[LastPair'].state = "Funded"
          /\ escrows[LastPair'].arbiter = NoArbiter
          /\ last'.caller \notin {escrows[LastPair'].buyer,
                                  escrows[LastPair'].seller}) =>
            last'.err = "UnauthorizedOperation" /\ LedgerUnchanged ]_vars

\* C9 witness: on a Funded record created with arbiter = buyer, a release by
\* a third key has been rejected.
C9_Witness ==
  /\ last.op = "release" /\ last.err = "UnauthorizedOperation"
  /\ Exists(LastPair)
  /\ escrows[LastPair].state = "Funded"
  /\ escrows[LastPair].arbiter = NoArbiter
  /\ last.caller \notin {escrows[LastPair].buyer, escrows[LastPair].seller}

\* C10: the amount moved by a successful release or refund is
\* max(0, custody_balance - minimum_reserve) of the live balance of the
\* escrow account; it is never negative and never more than that balance,
\* and the balance left is min(custody_balance, minimum_reserve).
C10_TransferAmount ==
  [][ (last'.op \in {"release", "refund"} /\ last'.err = "Ok") =>
        LET bal == escrow_lamports[LastPair'] IN
          /\ last'.moved = Max(0, bal - rent)
          /\ last'.moved >= 0
          /\ last'.moved <= bal
          /\ escrow_lamports'[LastPair'] = bal - last'.moved
          /\ escrow_lamports'[LastPair'] = Min(bal, rent)
          /\ lamports'[last'.dest] = lamports[last'.dest] + last'.moved ]_vars

\* C10 witness: a refund from an account holding less than the reserve has
\* moved nothing.
C10_Witness ==
  /\ last.op = "refund" /\ last.err = "Ok" /\ last.moved = 0
  /\ escrow_lamports[LastPair] < rent
  /\ escrow_lamports[LastPair] > 0

\* C11: a record created with amount A and funded, with no other deposit
\* into its account, holds A + reserve while Funded; the first successful
\* release or refund moves exactly A and leaves the reserve; a release
\* attempted after that is rejected with EscrowNotFunded and moves nothing.
C11_FundThenRelease ==
  [][ \A p \in DOMAIN escrows :
        LET e == escrows[p] IN
          /\ (e.state = "Funded" /\ ntopups = 0) =>
                escrow_lamports[p] = e.amount + rent
          /\ (/\ e.state = "Funded" /\ ntopups = 0
              /\ last'.op \in {"release", "refund"} /\ LastPair' = p
              /\ last'.err = "Ok") =>
                /\ last'.moved = e.amount
                /\ escrow_lamports'[p] = rent
          /\ (/\ e.state \in {"Released", "Refunded"}
              /\ last'.op = "release" /\ LastPair' = p) =>
                /\ last'.err = "EscrowNotFunded"
                /\ last'.moved = 0
                /\ LedgerUnchanged ]_vars

\* C11 witness: a second release on a Released record, whose account never
\* received another deposit and holds the reserve, has been rejected.
C11_Witness ==
  /\ last.op = "release" /\ last.err = "EscrowNotFunded"
  /\ Exists(LastPair)
  /\ escrows[LastPair].state = "Released"
  /\ ntopups = 0
  /\ escrow_lamports[LastPair] = rent

\* C12: the state of a record changes only along Created -> Funded (fund),
\* Funded -> Released (release), Funded -> Refunded (refund) and
\* Created -> removed (cancel); a record comes into being only in state
\* Created (create).  The edges go one way only, so a record takes each of
\* them at most once.
C12_Transitions ==
  [][ \A p \in Pairs :
        /\ (Exists(p) /\ p \in DOMAIN escrows' /\ escrows'[p].state # escrows[p].state) =>
              /\ LastPair' = p /\ last'.err = "Ok"
              /\ \/ /\ escrows[p].state = "Created" /\ escrows'[p].state = "Funded"
                    /\ last'.op = "fund"
                 \/ /\ escrows[p].state = "Funded" /\ escrows'[p].state = "Released"
                    /\ last'.op = "release"
                 \/ /\ escrows[p].state = "Funded" /\ escrows'[p].state = "Refunded"
                    /\ last'.op = "refund"
        /\ (Exists(p) /\ p \notin DOMAIN escrows') =>
              /\ escrows[p].state = "Created"
              /\ last'.op = "cancel" /\ LastPair' = p /\ last'.err = "Ok"
        /\ (~Exists(p) /\ p \in DOMAIN escrows') =>
              /\ escrows'[p].state = "Created"
              /\ last'.op = "create" /\ LastPair' = p /\ last'.err = "Ok" ]_vars

\* C12 witness: a refund has taken a record from Funded to Refunded.
C12_Witness ==
  /\ last.op = "refund" /\ last.err = "Ok"
  /\ Exists(LastPair)
  /\ escrows[LastPair].state = "Refunded"

\* C13: a rejected instruction leaves the records, every balance, the clock
\* and the reserve as they were, and every fund, release, refund, cancel and
\* create has the same outcome after it as before it.  The outcomes are
\* compared at the first rejected call after a step that took effect: by the
\* first part a run of rejected calls stays in the ledger state of that step.
C13_RejectionHasNoEffect ==
  [][ (last'.op \in Instructions /\ last'.err # "Ok") =>
        /\ UNCHANGED <<escrows, lamports, escrow_lamports, now, rent>>
        /\ last.err = "Ok" =>
             /\ \A p \in Pairs, c \in Keys :
                   /\ FundEscrowErr(p, c)' = FundEscrowErr(p, c)
                   /\ ReleaseToSellerErr(p, c)' = ReleaseToSellerErr(p, c)
                   /\ RefundToBuyerErr(p, c)' = RefundToBuyerErr(p, c)
                   /\ CancelEscrowErr(p, c)' = CancelEscrowErr(p, c)
             /\ \A p \in Pairs, amt \in Amounts, t \in Timeouts :
                   InitializeEscrowErr(p[1], p[2], p[1], amt, t)'
                     = InitializeEscrowErr(p[1], p[2], p[1], amt, t) ]_vars

\* C13 witness: a fund whose ledger transfer failed for lack of buyer funds
\* has left the record Created.
C13_Witness ==
  /\ last.op = "fund" /\ last.err = "InsufficientFunds"
  /\ Exists(LastPair)
  /\ escrows[LastPair].state = "Created"
  /\ escrow_lamports[LastPair] >= rent

\* C14: the account of every existing record holds at least the minimum
\* reserve.
C14_ReserveKept ==
  \A p \in DOMAIN escrows : escrow_lamports[p] >= rent /\ escrow_lamports[p] >= 0

\* C14 witness: a release has moved lamports out and left exactly the reserve.
C14_Witness ==
  /\ last.op = "release" /\ last.err = "Ok" /\ last.moved > 0
  /\ escrow_lamports[LastPair] = rent

\* The timeout of record p has passed.
TimedOut(p) == now - escrows[p].created_at >= escrows[p].timeout_period

\* C15: on a Funded record whose timeout has passed the seller's release is
\* permitted, and it stays permitted, the clock never going back, until the
\* record leaves Funded; so with a clock that advances and a seller who
\* eventually makes a release that stays permitted, every Funded record
\* (whose timeout falls within the clock's range) becomes Released or
\* Refunded.
C15_TimeoutLiveness ==
  /\ [](\A p \in DOMAIN escrows :
           (escrows[p].state = "Funded" /\ TimedOut(p)) =>
              ReleaseToSellerErr(p, escrows[p].seller) = "Ok")
  /\ [][ /\ now' >= now
         /\ \A p \in DOMAIN escrows :
              (/\ escrows[p].state = "Funded" /\ TimedOut(p)
               /\ p \in DOMAIN escrows' /\ escrows'[p].state = "Funded") =>
                 /\ TimedOut(p)'
                 /\ ReleaseToSellerErr(p, escrows[p].seller)' = "Ok" ]_vars
  /\ \A p \in Pairs :
        (/\ Exists(p) /\ escrows[p].state = "Funded"
         /\ escrows[p].created_at + escrows[p].timeout_period <= MaxTime)
          ~> (Exists(p) /\ escrows[p].state \in {"Released", "Refunded"})

\* C15 witness: the seller, who is neither buyer nor arbiter, has released
\* at the very time the timeout was reached.
C15_Witness ==
  /\ last.op = "release" /\ last.err = "Ok"
  /\ Exists(LastPair)
  /\ escrows[LastPair].state = "Released"
  /\ last.caller = escrows[LastPair].seller
  /\ last.caller # escrows[LastPair].arbiter
  /\ last.caller # escrows[LastPair].buyer
  /\ now = escrows[LastPair].created_at + escrows[LastPair].timeout_period

\* The fields of a record that only initialize_escrow writes.
Terms(e) == <<e.buyer, e.seller, e.arbiter, e.amount, e.created_at,
              e.timeout_period, e.bump>>

\* C16: for as long as a record exists no step, successful or rejected,
\* changes its buyer, seller, arbiter, amount, created_at, timeout_period
\* or bump.
C16_TermsImmutable ==
  [][ \A p \in DOMAIN escrows :
        p \in DOMAIN escrows' => Terms(escrows'[p]) = Terms(escrows[p]) ]_vars

\* C16 witness: a record created earlier has been funded and then released.
C16_Witness ==
  /\ last.op = "release" /\ last.err = "Ok"
  /\ Exists(LastPair)
  /\ escrows[LastPair].amount > 0
  /\ now > escrows[LastPair].created_at

RECURSIVE SumOver(_, _)
\* The sum of f over the set S of its arguments.
SumOver(f, S) ==
  IF S = {} THEN 0
  ELSE LET x == CHOOSE y \in S : TRUE IN f[x] + SumOver(f, S \ {x})

Total == SumOver(lamports, Keys) + SumOver(escrow_lamports, Pairs)

\* C17: the lamports of the escrow accounts and of all key accounts add up
\* to the same total in every reachable state.
C17_ValueConserved == Total = Cardinality(Keys) * InitLamports

\* C17 witness: an account that had received a top-up has been closed by
\* cancel.
C17_Witness ==
  /\ last.op = "cancel" /\ last.err = "Ok" /\ last.moved > rent
  /\ escrow_lamports[LastPair] = 0

\* C18: a release or refund succeeds only on a Funded record and leaves it
\* Released or Refunded; such a record is never removed, never changes state
\* again and its account never loses lamports: so at most one of release and
\* refund ever succeeds on a record, and at most once.
C18_PaidOutOnce ==
  [][ \A p \in Pairs :
        /\ (last'.op \in {"release", "refund"} /\ LastPair' = p /\ last'.err = "Ok") =>
              /\ Exists(p) /\ escrows[p].state = "Funded"
              /\ escrows'[p].state =
                    IF last'.op = "release" THEN "Released" ELSE "Refunded"
        /\ (Exists(p) /\ escrows[p].state \in {"Released", "Refunded"}) =>
              /\ p \in DOMAIN escrows'
              /\ escrows'[p].state = escrows[p].state
              /\ escrow_lamports'[p] >= escrow_lamports[p]
              /\ (LastPair' = p /\ last'.op \in Instructions) => last'.err # "Ok"
        /\ (Exists(p) /\ escrows[p].state # "Funded") =>
              escrow_lamports'[p] >= escrow_lamports[p] \/ last'.op = "cancel" ]_vars

\* C18 witness: a refund by the seller on a Released record has been rejected.
C18_Witness ==
  /\ last.op = "refund" /\ last.err = "EscrowNotFunded"
  /\ Exists(LastPair)
  /\ escrows[LastPair].state = "Released"
  /\ last.caller = escrows[LastPair].seller

\* C19: the timeout runs from creation: fund leaves created_at as create
\* wrote it, and when a record is funded at a time with
\* now - created_at >= timeout_period the seller's release is permitted at
\* once: made as the next call, it succeeds.
C19_TimeoutFromCreation ==
  [][ /\ \A p \in DOMAIN escrows :
            (last'.op = "fund" /\ LastPair' = p /\ last'.err = "Ok") =>
              /\ escrows'[p].created_at = escrows[p].created_at
              /\ (now - escrows[p].created_at >= escrows[p].timeout_period) =>
                    \A k \in Keys :
                       k = escrows[p].seller => ReleaseToSellerErr(p, k)' = "Ok"
      /\ (/\ last.op = "fund" /\ last.err = "Ok"
          /\ Exists(LastPair)
          /\ now - escrows[LastPair].created_at >= escrows[LastPair].timeout_period
          /\ last'.op = "release" /\ LastPair' = LastPair
          /\ last'.caller = escrows[LastPair].seller) =>
            /\ last'.err = "Ok"
            /\ escrows'[LastPair].state = "Released" ]_vars

\* C19 witness: a record without arbiter has just been funded after its
\* timeout had passed, and the seller's release is permitted.
C19_Witness ==
  /\ last.op = "fund" /\ last.err = "Ok"
  /\ Exists(LastPair)
  /\ escrows[LastPair].arbiter = NoArbiter
  /\ now - escrows[LastPair].created_at >= escrows[LastPair].timeout_period
  /\ ReleaseToSellerErr(LastPair, escrows[LastPair].seller) = "Ok"

\* C20: a pair has at most one record and create for it fails while that
\* record exists, in whatever state; a Released or Refunded record is never
\* removed and no record is stored as Cancelled, so no create for its pair
\* succeeds again; right after a successful cancel a valid create for the
\* pair (by a buyer who can pay the reserve) succeeds and starts in Created.
C20_SlotReuse ==
  [][ \A p \in Pairs :
        /\ (Exists(p) /\ last'.op = "create" /\ LastPair' = p) =>
              last'.err = "AccountAlreadyInUse" /\ LedgerUnchanged
        /\ Exists(p) => escrows[p].state # "Cancelled"
        /\ (Exists(p) /\ escrows[p].state \in {"Released", "Refunded"}) =>
              p \in DOMAIN escrows' /\ escrows'[p].state = escrows[p].state
        /\ (/\ last.op = "cancel" /\ last.err = "Ok" /\ LastPair = p
            /\ last'.op = "create" /\ LastPair' = p
            /\ last'.amount > 0 /\ last'.timeout > 0
            /\ lamports[p[1]] >= rent) =>
              /\ last'.err = "Ok"
              /\ escrows'[p].state = "Created" ]_vars

\* C20 witness: a record exists in Created although its pair's account had
\* received a top-up in an earlier life: it was cancelled and created again.
C20_Witness ==
  /\ last.op = "create" /\ last.err = "Ok"
  /\ Exists(LastPair)
  /\ escrows[LastPair].state = "Created"
  /\ ntopups > 0
  /\ escrow_lamports[LastPair] = rent
====
